---- MODULE Spec2Model ----
(***************************************************************************)
(* STHS34PF80 MicroPython driver (src/sths34pf80.py).                      *)
(*                                                                         *)
(* The driver is a sequential class over an I2C bus object.  The model     *)
(* keeps the bus memory (the sensor's registers), the caller's reference   *)
(* to the constructed driver, and a record of every bus transaction with   *)
(* the bus's answer to it.  Each public operation is one action; the       *)
(* methods are operators that return the transactions they issued and how  *)
(* they ended (a returned value or a raised exception).                    *)
(***************************************************************************)
EXTENDS Integers, Sequences, FiniteSets, TLC

\* ---------------------------------------------------------------- constants
WHO_AM_I_REG   == 15
WHO_AM_I_VAL   == 211
CTRL1_REG      == 32
STATUS_REG     == 35
TOBJECT_L_REG  == 38
TOBJECT_H_REG  == 39
TAMBIENT_L_REG == 40
TAMBIENT_H_REG == 41
DEFAULT_ADDRESS == 90
ODR_VALUE      == 3

\* Number of getter calls made on one driver.
MaxCalls == 3

Byte == 0..255

Registers == {WHO_AM_I_REG, CTRL1_REG, STATUS_REG, TOBJECT_L_REG,
              TOBJECT_H_REG, TAMBIENT_L_REG, TAMBIENT_H_REG}

\* The bus objects a caller may hand to the constructor.
Buses == {"i2c0", "i2c1"}

\* The address argument: <<>> is "omitted" (the default applies).
AddressArgs == {<<>>, <<DEFAULT_ADDRESS + 1>>}

\* What the bus does with one transaction: it answers, or raises an OSError.
NoFault == "ok"
OSError(arg) == [cls |-> "OSError", arg |-> arg]
BusErrors == {"EIO", "ETIMEDOUT"}
Faults == {NoFault} \cup BusErrors

Getters == {"get_presence_status", "get_object_temperature",
            "get_ambient_temperature"}

VARIABLES
    regs,       \* the sensor's register file behind the bus
    sensor,     \* the caller's driver object: <<>> or <<[i2c, address]>>
    given,      \* the constructor's arguments: <<>> or <<[i2c, addressArg]>>
    log,        \* every bus transaction of the driver's lifetime, in order
    lastTx,     \* the bus transactions of the last operation
    result,     \* the last operation and how it ended
    calls,      \* the getter calls so far, with how each ended
    remaining   \* getter calls still to be made

vars == <<regs, sensor, given, log, lastTx, result, calls, remaining>>

\* ------------------------------------------------------- outcomes of a call
Return(v) == [raised |-> FALSE, val |-> <<v>>, err |-> <<>>]
Raise(e)  == [raised |-> TRUE,  val |-> <<>>,  err |-> <<e>>]

\* One bus transaction as the bus sees it; res is the bus's answer.
Tx(op, self, register, n, data, fault) ==
    [op |-> op, i2c |-> self.i2c, addr |-> self.address, reg |-> register,
     n |-> n, data |-> data, res |-> fault]

\* -------------------------------------------------- Python integer operators
RECURSIVE BitAnd(_, _)
BitAnd(a, b) ==
    IF a = 0 \/ b = 0 THEN 0
    ELSE (a % 2) * (b % 2) + 2 * BitAnd(a \div 2, b \div 2)

RECURSIVE BitOr(_, _)
BitOr(a, b) ==
    IF a = 0 THEN b
    ELSE IF b = 0 THEN a
    ELSE (IF a % 2 = 1 \/ b % 2 = 1 THEN 1 ELSE 0)
         + 2 * BitOr(a \div 2, b \div 2)

Shl(a, n) == a * (2 ^ n)

bool(x) == x # 0

\* temp_raw * 0.01, kept as an exact decimal: whole degrees and hundredths.
\* (The rounding of the port's float format is not represented.)
Times001(n) == [units |-> n \div 100, hundredths |-> n % 100]

\* ------------------------------------------------------------------ the bus
\* i2c.readfrom_mem(addr, memaddr, nbytes): nbytes registers from memaddr on.
readfrom_mem(mem, memaddr, nbytes) ==
    [i \in 1..nbytes |-> mem[memaddr + i - 1]]

\* i2c.writeto_mem(addr, memaddr, buf): buf stored from memaddr on.
writeto_mem(mem, memaddr, buf) ==
    [r \in DOMAIN mem |->
        IF r >= memaddr /\ r < memaddr + Len(buf) THEN buf[r - memaddr + 1]
        ELSE mem[r]]

\* --------------------------------------------------------------- the driver
\* Variant: the transaction goes to the default address, not the stored one.
read_register_default_address(self, mem, register, length, fault) ==
    [tx  |-> <<Tx("read", [self EXCEPT !.address = DEFAULT_ADDRESS],
                  register, length, <<>>, fault)>>,
     out |-> IF fault = NoFault
             THEN Return(readfrom_mem(mem, register, length))
             ELSE Raise(OSError(fault))]

read_register(self, mem, register, length, fault) ==
    [tx  |-> <<Tx("read", self, register, length, <<>>, fault)>>,
     out |-> IF fault = NoFault
             THEN Return(readfrom_mem(mem, register, length))
             ELSE Raise(OSError(fault))]

write_register(self, mem, register, value, fault) ==
    [tx  |-> <<Tx("write", self, register, 1, <<value>>, fault)>>,
     out |-> IF fault = NoFault THEN Return("None") ELSE Raise(OSError(fault)),
     mem |-> IF fault = NoFault THEN writeto_mem(mem, register, <<value>>)
             ELSE mem]

\* Variant: any device that answers is accepted.
check_device_any(self, mem, fault) ==
    LET r == read_register(self, mem, WHO_AM_I_REG, 1, fault)
    IN  [tx  |-> r.tx,
         out |-> IF r.out.raised THEN Return(FALSE) ELSE Return(TRUE)]

\* Variant: a failed identity read is tried once more (the bus then answers).
check_device_retry(self, mem, fault) ==
    LET r == read_register(self, mem, WHO_AM_I_REG, 1, fault)
        again == read_register(self, mem, WHO_AM_I_REG, 1, NoFault)
    IN  IF r.out.raised
        THEN [tx  |-> r.tx \o again.tx,
              out |-> Return(again.out.val[1][1] = WHO_AM_I_VAL)]
        ELSE [tx  |-> r.tx,
              out |-> Return(r.out.val[1][1] = WHO_AM_I_VAL)]

\* Variant: no try/except, the bus's OSError leaves the method.
check_device_propagate(self, mem, fault) ==
    LET r == read_register(self, mem, WHO_AM_I_REG, 1, fault)
    IN  [tx  |-> r.tx,
         out |-> IF r.out.raised
                 THEN r.out
                 ELSE Return(r.out.val[1][1] = WHO_AM_I_VAL)]

check_device(self, mem, fault) ==
    LET r == read_register(self, mem, WHO_AM_I_REG, 1, fault)
    IN  [tx  |-> r.tx,
         out |-> IF r.out.raised
                 THEN Return(FALSE)
                 ELSE Return(r.out.val[1][1] = WHO_AM_I_VAL)]

initialize_sensor(self, mem, fault) ==
    write_register(self, mem, CTRL1_REG, ODR_VALUE, fault)

NotFound == OSError("STHS34PF80 not found on I2C bus.")

\* Variant: a failed control-register write is reported as "not found".
STHS34PF80_wrapped(i2c, mem, addressArg, f1, f2) ==
    LET address == IF addressArg = <<>> THEN DEFAULT_ADDRESS ELSE addressArg[1]
        self == [i2c |-> i2c, address |-> address]
        chk  == check_device(self, mem, f1)
    IN  IF chk.out.raised
        THEN [tx |-> chk.tx, out |-> chk.out, mem |-> mem, self |-> self]
        ELSE IF ~chk.out.val[1]
        THEN [tx |-> chk.tx, out |-> Raise(NotFound), mem |-> mem, self |-> self]
        ELSE LET w == initialize_sensor(self, mem, f2)
             IN  [tx   |-> chk.tx \o w.tx,
                  out  |-> IF w.out.raised THEN Raise(NotFound) ELSE Return(self),
                  mem  |-> w.mem,
                  self |-> self]

\* STHS34PF80(i2c, address): the constructor call.  f1 and f2 are the bus's
\* answers to the first and second transaction, if issued.
STHS34PF80(i2c, mem, addressArg, f1, f2) ==
    LET address == IF addressArg = <<>> THEN DEFAULT_ADDRESS ELSE addressArg[1]
        self == [i2c |-> i2c, address |-> address]
        chk  == check_device(self, mem, f1)
    IN  IF chk.out.raised
        THEN [tx |-> chk.tx, out |-> chk.out, mem |-> mem, self |-> self]
        ELSE IF ~chk.out.val[1]
        THEN [tx |-> chk.tx, out |-> Raise(NotFound), mem |-> mem, self |-> self]
        ELSE LET w == initialize_sensor(self, mem, f2)
             IN  [tx   |-> chk.tx \o w.tx,
                  out  |-> IF w.out.raised THEN w.out ELSE Return(self),
                  mem  |-> w.mem,
                  self |-> self]

\* Variant: any set bit of the status byte counts as presence.
get_presence_status_any_bit(self, mem, f1) ==
    LET r == read_register(self, mem, STATUS_REG, 1, f1)
    IN  IF r.out.raised
        THEN [tx |-> r.tx, out |-> r.out]
        ELSE LET status == r.out.val[1]
             IN  [tx |-> r.tx, out |-> Return(bool(status[1]))]

get_presence_status(self, mem, f1) ==
    LET r == read_register(self, mem, STATUS_REG, 1, f1)
    IN  IF r.out.raised
        THEN [tx |-> r.tx, out |-> r.out]
        ELSE LET status == r.out.val[1]
             IN  [tx |-> r.tx, out |-> Return(bool(BitAnd(status[1], 1)))]

\* Variant: both bytes are read before an error of the first is raised.
get_object_temperature_eager(self, mem, f1, f2) ==
    LET rl == read_register(self, mem, TOBJECT_L_REG, 1, f1)
        rh == read_register(self, mem, TOBJECT_H_REG, 1, f2)
    IN  IF rl.out.raised THEN [tx |-> rl.tx \o rh.tx, out |-> rl.out]
        ELSE IF rh.out.raised THEN [tx |-> rl.tx \o rh.tx, out |-> rh.out]
        ELSE [tx  |-> rl.tx \o rh.tx,
              out |-> Return(Times001(BitOr(Shl(rh.out.val[1][1], 8),
                                            rl.out.val[1][1])))]

\* Variant: the raw value is read as a signed 16-bit number.
get_object_temperature_signed(self, mem, f1, f2) ==
    LET rl == read_register(self, mem, TOBJECT_L_REG, 1, f1)
    IN  IF rl.out.raised
        THEN [tx |-> rl.tx, out |-> rl.out]
        ELSE LET rh == read_register(self, mem, TOBJECT_H_REG, 1, f2)
             IN  IF rh.out.raised
                 THEN [tx |-> rl.tx \o rh.tx, out |-> rh.out]
                 ELSE LET u == BitOr(Shl(rh.out.val[1][1], 8), rl.out.val[1][1])
                          temp_raw == IF u >= 32768 THEN u - 65536 ELSE u
                      IN  [tx  |-> rl.tx \o rh.tx,
                           out |-> Return(Times001(temp_raw))]

\* Variant: a temperature just read by the other getter is reused.
get_object_temperature_cached(self, mem, f1, f2) ==
    IF result.op = "get_ambient_temperature" /\ ~result.out.raised
    THEN [tx |-> <<>>, out |-> result.out]
    ELSE LET rl == read_register(self, mem, TOBJECT_L_REG, 1, f1)
         IN  IF rl.out.raised
             THEN [tx |-> rl.tx, out |-> rl.out]
             ELSE LET rh == read_register(self, mem, TOBJECT_H_REG, 1, f2)
                  IN  IF rh.out.raised
                      THEN [tx |-> rl.tx \o rh.tx, out |-> rh.out]
                      ELSE [tx  |-> rl.tx \o rh.tx,
                            out |-> Return(Times001(BitOr(Shl(rh.out.val[1][1], 8),
                                                          rl.out.val[1][1])))]

get_object_temperature(self, mem, f1, f2) ==
    LET rl == read_register(self, mem, TOBJECT_L_REG, 1, f1)
    IN  IF rl.out.raised
        THEN [tx |-> rl.tx, out |-> rl.out]
        ELSE LET rh == read_register(self, mem, TOBJECT_H_REG, 1, f2)
             IN  IF rh.out.raised
                 THEN [tx |-> rl.tx \o rh.tx, out |-> rh.out]
                 ELSE LET temp_l   == rl.out.val[1][1]
                          temp_h   == rh.out.val[1][1]
                          temp_raw == BitOr(Shl(temp_h, 8), temp_l)
                      IN  [tx  |-> rl.tx \o rh.tx,
                           out |-> Return(Times001(temp_raw))]

\* Variant: the high byte is taken from the object-temperature pair.
get_ambient_temperature_object_high(self, mem, f1, f2) ==
    LET rl == read_register(self, mem, TAMBIENT_L_REG, 1, f1)
    IN  IF rl.out.raised
        THEN [tx |-> rl.tx, out |-> rl.out]
        ELSE LET rh == read_register(self, mem, TOBJECT_H_REG, 1, f2)
             IN  IF rh.out.raised
                 THEN [tx |-> rl.tx \o rh.tx, out |-> rh.out]
                 ELSE [tx  |-> rl.tx \o rh.tx,
                       out |-> Return(Times001(BitOr(Shl(rh.out.val[1][1], 8),
                                                     rl.out.val[1][1])))]

get_ambient_temperature(self, mem, f1, f2) ==
    LET rl == read_register(self, mem, TAMBIENT_L_REG, 1, f1)
    IN  IF rl.out.raised
        THEN [tx |-> rl.tx, out |-> rl.out]
        ELSE LET rh == read_register(self, mem, TAMBIENT_H_REG, 1, f2)
             IN  IF rh.out.raised
                 THEN [tx |-> rl.tx \o rh.tx, out |-> rh.out]
                 ELSE LET temp_l   == rl.out.val[1][1]
                          temp_h   == rh.out.val[1][1]
                          temp_raw == BitOr(Shl(temp_h, 8), temp_l)
                      IN  [tx  |-> rl.tx \o rh.tx,
                           out |-> Return(Times001(temp_raw))]

\* ------------------------------------------------------------------ actions
NoResult == [op |-> "none", out |-> Return("None")]

\* Register contents the lifecycle specification starts from.
StatusSamples == {1, 254}
ObjectSamples == {<<0, 1>>, <<255, 255>>}
AmbientSamples == {<<255, 0>>}

Memory(id, ctrl, status, obj, amb) ==
    [r \in Registers |->
        CASE r = WHO_AM_I_REG   -> id
          [] r = CTRL1_REG      -> ctrl
          [] r = STATUS_REG     -> status
          [] r = TOBJECT_L_REG  -> obj[1]
          [] r = TOBJECT_H_REG  -> obj[2]
          [] r = TAMBIENT_L_REG -> amb[1]
          [] r = TAMBIENT_H_REG -> amb[2]]

Init ==
    /\ \E id \in Byte, status \in StatusSamples,
          obj \in ObjectSamples, amb \in AmbientSamples :
            regs = Memory(id, 0, status, obj, amb)
    /\ sensor = <<>>
    /\ given = <<>>
    /\ log = <<>>
    /\ lastTx = <<>>
    /\ result = NoResult
    /\ calls = <<>>
    /\ remaining = MaxCalls

\* sensor = STHS34PF80(i2c, address)
Construct ==
    /\ result.op = "none"
    /\ \E i2c \in Buses, addressArg \in AddressArgs, f1 \in Faults, f2 \in Faults :
         LET c == STHS34PF80(i2c, regs, addressArg, f1, f2)
         IN  /\ regs' = c.mem
             /\ sensor' = IF c.out.raised THEN <<>> ELSE c.out.val
             /\ given' = <<[i2c |-> i2c, addressArg |-> addressArg]>>
             /\ log' = log \o c.tx
             /\ lastTx' = c.tx
             /\ result' = [op |-> "construct", out |-> c.out]
    /\ UNCHANGED <<calls, remaining>>

Called(op, r) ==
    /\ log' = log \o r.tx
    /\ lastTx' = r.tx
    /\ result' = [op |-> op, out |-> r.out]
    /\ calls' = Append(calls, [op |-> op, out |-> r.out])
    /\ remaining' = remaining - 1
    /\ UNCHANGED <<regs, sensor, given>>

\* sensor.get_presence_status()
GetPresenceStatus ==
    /\ sensor # <<>>
    /\ remaining > 0
    /\ \E f1 \in Faults :
         Called("get_presence_status", get_presence_status(sensor[1], regs, f1))

\* sensor.get_object_temperature()
GetObjectTemperature ==
    /\ sensor # <<>>
    /\ remaining > 0
    /\ \E f1 \in Faults, f2 \in Faults :
         Called("get_object_temperature",
                get_object_temperature(sensor[1], regs, f1, f2))

\* sensor.get_ambient_temperature()
GetAmbientTemperature ==
    /\ sensor # <<>>
    /\ remaining > 0
    /\ \E f1 \in Faults, f2 \in Faults :
         Called("get_ambient_temperature",
                get_ambient_temperature(sensor[1], regs, f1, f2))

Next ==
    \/ Construct
    \/ GetPresenceStatus
    \/ GetObjectTemperature
    \/ GetAmbientTemperature

Spec == Init /\ [][Next]_vars

\* A constructed driver at the default address over every content of the
\* status register and of the two temperature pairs, and one getter call.
InitBytes ==
    \E lo \in Byte, hi \in Byte :
        LET c == STHS34PF80("i2c0", Memory(WHO_AM_I_VAL, 0, lo, <<lo, hi>>, <<hi, lo>>),
                            <<>>, NoFault, NoFault)
        IN  /\ regs = c.mem
            /\ sensor = c.out.val
            /\ given = <<[i2c |-> "i2c0", addressArg |-> <<>>]>>
            /\ log = c.tx
            /\ lastTx = c.tx
            /\ result = [op |-> "construct", out |-> c.out]
            /\ calls = <<>>
            /\ remaining = 1

NextBytes ==
    \/ GetPresenceStatus
    \/ GetObjectTemperature
    \/ GetAmbientTemperature

SpecBytes == InitBytes /\ [][NextBytes]_vars

\* --------------------------------------------------------------- properties
IsRead(t, register) ==
    t.op = "read" /\ t.reg = register /\ t.n = 1 /\ t.data = <<>>

IsWrite(t, register, data) ==
    t.op = "write" /\ t.reg = register /\ t.data = data

\* The state right after the constructor call.
Constructed == result.op = "construct"

\* The identity read was answered, with the expected identity byte.
IdentityOk == lastTx[1].res = NoFault /\ regs[WHO_AM_I_REG] = WHO_AM_I_VAL

\* The driver object the constructor's arguments stand for.
GivenSelf ==
    [i2c     |-> given[1].i2c,
     address |-> IF given[1].addressArg = <<>> THEN DEFAULT_ADDRESS
                 ELSE given[1].addressArg[1]]

\* C1 as stated: whenever the identity read returns 0xD3 the construction
\* succeeds (and otherwise it fails with the driver's not-found error).
C1_Original ==
    Constructed =>
        /\ IdentityOk => (~result.out.raised /\ sensor = <<GivenSelf>>)
        /\ ~IdentityOk => (result.out = Raise(NotFound) /\ sensor = <<>>)

\* C1 amended: construction succeeds when the identity read returns 0xD3 and
\* no bus transaction of the construction fails; for every other identity
\* byte, and when the identity read fails, it fails with the driver's
\* not-found error and the caller holds no driver.
C1_Identity ==
    Constructed =>
        /\ (IdentityOk /\ \A i \in 1..Len(lastTx) : lastTx[i].res = NoFault)
              => (~result.out.raised /\ sensor = <<GivenSelf>>)
        /\ ~IdentityOk => (result.out = Raise(NotFound) /\ sensor = <<>>)
        /\ ~result.out.raised => IdentityOk

C1_Witness ==
    /\ Constructed
    /\ lastTx[1].res = NoFault
    /\ regs[WHO_AM_I_REG] = WHO_AM_I_VAL - 1
    /\ result.out = Raise(NotFound)
    /\ sensor = <<>>

\* C2: the driver's first transaction is the one read of the identity
\* register; it is never repeated; the single write of <<0x03>> to the control
\* register follows exactly when that read returned 0xD3, and construction
\* issues nothing else.
C2_ConstructionTransactions ==
    result.op # "none" =>
        /\ Len(log) >= 1
        /\ IsRead(log[1], WHO_AM_I_REG)
        /\ \A i \in 2..Len(log) : log[i].reg # WHO_AM_I_REG
        /\ IF log[1].res = NoFault /\ regs[WHO_AM_I_REG] = WHO_AM_I_VAL
           THEN /\ Len(log) >= 2
                /\ IsWrite(log[2], CTRL1_REG, <<ODR_VALUE>>)
                /\ Constructed => Len(lastTx) = 2
           ELSE Len(log) = 1
        /\ Constructed => log = lastTx

C2_Witness ==
    /\ Constructed
    /\ Len(lastTx) = 2
    /\ lastTx[2].res = NoFault
    /\ regs[CTRL1_REG] = ODR_VALUE

\* C3 as stated: when the identity read fails, the caller observes the error
\* the bus raised.
C3_Original ==
    (Constructed /\ lastTx[1].res # NoFault)
        => result.out = Raise(OSError(lastTx[1].res))

\* C3 amended: when the identity read fails, the bus's error is caught and the
\* caller observes the driver's own not-found error instead; nothing else is
\* sent on the bus.
C3_ReadErrorMasked ==
    (Constructed /\ lastTx[1].res # NoFault)
        => /\ result.out = Raise(NotFound)
           /\ result.out.err # <<OSError(lastTx[1].res)>>
           /\ Len(lastTx) = 1

C3_Witness ==
    /\ Constructed
    /\ lastTx[1].res = "EIO"
    /\ result.out.err = <<NotFound>>

\* C4: a getter whose bus read fails raises exactly the bus's error, returns
\* no value, and the failed read is the last transaction of the call.
C4_GetterErrorPropagates ==
    result.op \in Getters =>
        \A i \in 1..Len(lastTx) :
            /\ lastTx[i].op = "read"
            /\ lastTx[i].res # NoFault =>
                  /\ i = Len(lastTx)
                  /\ result.out = Raise(OSError(lastTx[i].res))
                  /\ result.out.val = <<>>
            /\ (result.out.raised /\ i = Len(lastTx)) => lastTx[i].res # NoFault

C4_Witness ==
    /\ result.op = "get_object_temperature"
    /\ Len(lastTx) = 1
    /\ lastTx[1].reg = TOBJECT_L_REG
    /\ lastTx[1].res = "ETIMEDOUT"
    /\ result.out = Raise(OSError("ETIMEDOUT"))

\* C5: get_object_temperature reads 0x26 and then 0x27, one byte each, and
\* returns high*256 + low hundredths of a degree, never a negative value.
C5_ObjectTemperature ==
    result.op = "get_object_temperature" =>
        /\ Len(lastTx) \in {1, 2}
        /\ IsRead(lastTx[1], TOBJECT_L_REG)
        /\ Len(lastTx) = 2 => IsRead(lastTx[2], TOBJECT_H_REG)
        /\ ~result.out.raised =>
              LET v   == result.out.val[1]
                  raw == regs[TOBJECT_H_REG] * 256 + regs[TOBJECT_L_REG]
              IN  /\ Len(lastTx) = 2
                  /\ v.hundredths \in 0..99
                  /\ v.units >= 0
                  /\ v.units * 100 + v.hundredths = raw

C5_Witness ==
    /\ result.op = "get_object_temperature"
    /\ regs[TOBJECT_L_REG] = 0
    /\ regs[TOBJECT_H_REG] = 1
    /\ result.out = Return([units |-> 2, hundredths |-> 56])

\* C6: get_ambient_temperature reads 0x28 and then 0x29, never 0x26 or 0x27,
\* and returns what get_object_temperature returns for the same two bytes.
C6_AmbientTemperature ==
    result.op = "get_ambient_temperature" =>
        /\ Len(lastTx) \in {1, 2}
        /\ IsRead(lastTx[1], TAMBIENT_L_REG)
        /\ Len(lastTx) = 2 => IsRead(lastTx[2], TAMBIENT_H_REG)
        /\ \A i \in 1..Len(lastTx) :
              lastTx[i].reg \notin {TOBJECT_L_REG, TOBJECT_H_REG}
        /\ ~result.out.raised =>
              LET same == [regs EXCEPT ![TOBJECT_L_REG] = regs[TAMBIENT_L_REG],
                                       ![TOBJECT_H_REG] = regs[TAMBIENT_H_REG]]
              IN  result.out =
                    get_object_temperature(sensor[1], same, NoFault, NoFault).out

C6_Witness ==
    /\ result.op = "get_ambient_temperature"
    /\ regs[TAMBIENT_L_REG] = 255
    /\ regs[TAMBIENT_H_REG] = 0
    /\ regs[TOBJECT_H_REG] # 0
    /\ result.out = Return([units |-> 2, hundredths |-> 55])

\* C7: get_presence_status reads the status register once, one byte, and
\* returns whether the byte is odd (bit 0 set), whatever bits 1..7 are.
C7_PresenceStatus ==
    result.op = "get_presence_status" =>
        /\ Len(lastTx) = 1
        /\ IsRead(lastTx[1], STATUS_REG)
        /\ ~result.out.raised =>
              result.out.val = <<regs[STATUS_REG] % 2 = 1>>

C7_Witness ==
    /\ result.op = "get_presence_status"
    /\ regs[STATUS_REG] = 254
    /\ result.out = Return(FALSE)

\* C8: with the registers unchanged, any two calls of the same getter that
\* return a value return the same value, whatever was called in between.
C8_Idempotent ==
    \A i \in 1..Len(calls), j \in 1..Len(calls) :
        (calls[i].op = calls[j].op /\ ~calls[i].out.raised /\ ~calls[j].out.raised)
            => calls[i].out = calls[j].out

C8_Witness ==
    /\ Len(calls) = 3
    /\ calls[1].op = "get_object_temperature"
    /\ calls[2].op = "get_ambient_temperature"
    /\ calls[3].op = "get_object_temperature"
    /\ \A i \in 1..3 : ~calls[i].out.raised
    /\ calls[1].out # calls[2].out

\* The control-register write of the construction failed on the bus.
WriteFailed == Constructed /\ Len(lastTx) = 2 /\ lastTx[2].res # NoFault

\* C9 as stated: a failed control-register write makes construction fail with
\* the not-found error of an identity mismatch.
C9_Original ==
    WriteFailed => (result.out = Raise(NotFound) /\ sensor = <<>>)

\* C9 amended: a failed control-register write makes construction fail with
\* the bus's own error, unchanged, which is not the not-found error of an
\* identity mismatch; the caller holds no driver.
C9_WriteErrorPropagates ==
    WriteFailed =>
        /\ result.out = Raise(OSError(lastTx[2].res))
        /\ result.out # Raise(NotFound)
        /\ sensor = <<>>

C9_Witness ==
    /\ WriteFailed
    /\ lastTx[2].res = "EIO"
    /\ result.out.err = <<OSError("EIO")>>
    /\ sensor = <<>>

\* Every transaction goes to the bus and address given to the constructor,
\* the only write is the second transaction of the lifetime, and the driver
\* object, once there, is the one the arguments stand for.
C10_State ==
    /\ \A i \in 1..Len(log) :
          /\ log[i].i2c = GivenSelf.i2c
          /\ log[i].addr = GivenSelf.address
          /\ log[i].op = "write" =>
                (i = 2 /\ IsWrite(log[i], CTRL1_REG, <<ODR_VALUE>>))
    /\ result.op \in Getters => \A i \in 1..Len(lastTx) : lastTx[i].op = "read"
    /\ sensor # <<>> => sensor = <<GivenSelf>>

\* C10: over any sequence of getter calls no write is issued beyond the one
\* control-register write of the construction, the stored bus and address
\* never change, and every transaction is addressed to the address given at
\* construction (0x5A when none was given).
C10_Immutable ==
    /\ [](C10_State)
    /\ [][sensor # <<>> => (sensor' = sensor /\ given' = given)]_vars

C10_Witness ==
    /\ Len(calls) >= 2
    /\ calls[1].out.raised
    /\ ~calls[2].out.raised
    /\ given[1].addressArg = <<>>
    /\ Len(log) >= 4
    /\ log[3].addr = DEFAULT_ADDRESS

====
